---- MODULE Spec2Model ----
(***************************************************************************)
(* Model of the signup flow of the Next.js application:                    *)
(*   - the User table reached through the Prisma client (client.user),     *)
(*   - the server action signup (app/serverActions/user.ts) and the        *)
(*     documented catching variant of it (README),                        *)
(*   - the route handler POST, the Button click handler, the documented    *)
(*     SignupForm submit handler and the Home page lookup,                 *)
(*   - the Prisma client singleton module db/index.ts (README).            *)
(* Every request runs in three steps, one per suspension point of the      *)
(* async code: the handler starts and issues its query, the database       *)
(* executes the query, the handler resumes with the query's outcome.       *)
(***************************************************************************)
EXTENDS Integers, FiniteSets, Sequences, TLC

\* ---------------------------------------------------------------- bounds
\* Number of requests (clicks, submits, POSTs, page renders) of one run.
MaxReq == 2

Req == 1..MaxReq

\* ---------------------------------------------------------------- inputs
Usernames == {"alice", "bob"}
\* The username/password pairs a component holds or a body carries.
Credentials ==
    {<<"alice", "secret123">>, <<"alice", "pw">>, <<"bob", "pw">>}
\* The value of a property that a JSON body does not carry.
Undefined == "undefined"
\* The bodies of the POSTs: the credentials, and one without a username.
Bodies ==
    {[username |-> c[1], password |-> c[2]] : c \in Credentials}
        \cup {[username |-> Undefined, password |-> "pw"]}

\* ---------------------------------------------------------------- state
VARIABLES
    users,          \* rows of the User table
    nextId,         \* next value of the autoincrement sequence of User.id
    req,            \* the requests: handler position, inputs, results, UI state
    nodeEnv,        \* process.env.NODE_ENV
    globalPrisma,   \* globalThis.prisma (0: undefined)
    modulePrisma,   \* the export of the evaluated db/index.ts (0: not evaluated)
    constructed     \* number of PrismaClient instances constructed so far

vars == <<users, nextId, req, nodeEnv, globalPrisma, modulePrisma, constructed>>

NoUser == [id |-> 0, username |-> "", password |-> ""]
NoData == [username |-> "", password |-> ""]
NoOut == [ok |-> FALSE, code |-> "pending", row |-> NoUser]
NoRet == [tag |-> "none", success |-> FALSE, userId |-> 0, error |-> "", email |-> ""]
NoPre == [existed |-> FALSE, fresh |-> FALSE, up |-> FALSE, raced |-> FALSE]

NoReq ==
    [kind |-> "none", username |-> "", password |-> "", pc |-> "idle",
     data |-> NoData, pre |-> NoPre, out |-> NoOut, ret |-> NoRet,
     loading |-> FALSE, error |-> "", route |-> "", response |-> "",
     client |-> 0, view |-> "", hist |-> <<"idle">>]

\* ------------------------------------------------------- the User table
\* model User { id Int @id @default(autoincrement()); username String @unique;
\* password String }: the rows with a given username.
rowsOf(store, username) == {row \in store : row.username = username}

\* create without the unique index on username.
createNoUnique(store, seq, data, up) ==
    IF data.username = Undefined \/ data.password = Undefined
    THEN [users |-> store, nextId |-> seq,
          out |-> [ok |-> FALSE, code |-> "validation", row |-> NoUser]]
    ELSE IF ~up
    THEN [users |-> store, nextId |-> seq,
          out |-> [ok |-> FALSE, code |-> "P1001", row |-> NoUser]]
    ELSE LET row == [id |-> seq, username |-> data.username,
                     password |-> data.password]
         IN [users |-> store \cup {row}, nextId |-> seq + 1,
             out |-> [ok |-> TRUE, code |-> "", row |-> row]]

\* create as an upsert: a duplicate username overwrites the stored row.
createLastWins(store, seq, data, up) ==
    IF data.username = Undefined \/ data.password = Undefined
    THEN [users |-> store, nextId |-> seq,
          out |-> [ok |-> FALSE, code |-> "validation", row |-> NoUser]]
    ELSE IF ~up
    THEN [users |-> store, nextId |-> seq,
          out |-> [ok |-> FALSE, code |-> "P1001", row |-> NoUser]]
    ELSE IF rowsOf(store, data.username) # {}
    THEN LET old == CHOOSE row \in store : row.username = data.username
             new == [old EXCEPT !.password = data.password]
         IN [users |-> (store \ {old}) \cup {new}, nextId |-> seq,
             out |-> [ok |-> TRUE, code |-> "", row |-> new]]
    ELSE LET row == [id |-> seq, username |-> data.username,
                     password |-> data.password]
         IN [users |-> store \cup {row}, nextId |-> seq + 1,
             out |-> [ok |-> TRUE, code |-> "", row |-> row]]

\* create that does not advance the id sequence.
createSeqStuck(store, seq, data, up) ==
    IF data.username = Undefined \/ data.password = Undefined
    THEN [users |-> store, nextId |-> seq,
          out |-> [ok |-> FALSE, code |-> "validation", row |-> NoUser]]
    ELSE IF ~up
    THEN [users |-> store, nextId |-> seq,
          out |-> [ok |-> FALSE, code |-> "P1001", row |-> NoUser]]
    ELSE IF rowsOf(store, data.username) # {}
    THEN [users |-> store, nextId |-> seq,
          out |-> [ok |-> FALSE, code |-> "P2002", row |-> NoUser]]
    ELSE LET row == [id |-> seq, username |-> data.username,
                     password |-> data.password]
         IN [users |-> store \cup {row}, nextId |-> seq,
             out |-> [ok |-> TRUE, code |-> "", row |-> row]]

\* client.user.create({data}): one INSERT. A missing required field is refused
\* by the client before the database is contacted; an unreachable database
\* fails the call; a duplicate username violates the unique index (P2002), and
\* PostgreSQL has by then drawn the id from the sequence; otherwise the row is
\* stored with the next id and the fields of data exactly as given.
create(store, seq, data, up) ==
    IF data.username = Undefined \/ data.password = Undefined
    THEN [users |-> store, nextId |-> seq,
          out |-> [ok |-> FALSE, code |-> "validation", row |-> NoUser]]
    ELSE IF ~up
    THEN [users |-> store, nextId |-> seq,
          out |-> [ok |-> FALSE, code |-> "P1001", row |-> NoUser]]
    ELSE IF rowsOf(store, data.username) # {}
    THEN [users |-> store, nextId |-> seq + 1,
          out |-> [ok |-> FALSE, code |-> "P2002", row |-> NoUser]]
    ELSE LET row == [id |-> seq, username |-> data.username,
                     password |-> data.password]
         IN [users |-> store \cup {row}, nextId |-> seq + 1,
             out |-> [ok |-> TRUE, code |-> "", row |-> row]]

\* client.user.findFirst({}): the outcomes of one SELECT without ordering:
\* a failure, null on an empty table, or any one row.
findFirst(store, up) ==
    IF ~up THEN {[ok |-> FALSE, code |-> "P1001", row |-> NoUser]}
    ELSE IF store = {} THEN {[ok |-> TRUE, code |-> "null", row |-> NoUser]}
    ELSE {[ok |-> TRUE, code |-> "", row |-> row] : row \in store}

\* ------------------------------------------- the Prisma client singleton
\* db/index.ts without the globalThis cache: every evaluation builds a client.
prismaModuleNoCache(env, g, c) ==
    [prisma |-> c + 1, constructed |-> c + 1,
     global |-> IF env # "production" THEN c + 1 ELSE g]

\* db/index.ts without the NODE_ENV test: the instance is always stored on
\* globalThis.
prismaModuleAlwaysGlobal(env, g, c) ==
    LET prisma == IF g # 0 THEN g ELSE c + 1
    IN [prisma |-> prisma,
        constructed |-> IF g # 0 THEN c ELSE c + 1,
        global |-> prisma]

\* Evaluation of db/index.ts with globalThis.prisma = g and c clients built:
\* prisma = globalThis.prisma ?? new PrismaClient(); outside production the
\* instance is stored on globalThis.
prismaModule(env, g, c) ==
    LET prisma == IF g # 0 THEN g ELSE c + 1
    IN [prisma |-> prisma,
        constructed |-> IF g # 0 THEN c ELSE c + 1,
        global |-> IF env # "production" THEN prisma ELSE g]

\* import client from "@/db/index": the module is evaluated on its first
\* import and its export is returned on every later one.
importClient(env, m, g, c) ==
    IF m # 0
    THEN [prisma |-> m, constructed |-> c, global |-> g]
    ELSE prismaModule(env, g, c)

\* ------------------------------------------------------ server functions
\* signup storing a value derived from the password instead of the password.
signupDataDigest(username, password) ==
    [username |-> username, password |-> "digest"]

\* The data object signup hands to client.user.create.
signupData(username, password) ==
    [username |-> username, password |-> password]

\* signup swallowing the failure of its create and returning false.
signupSwallow(out) ==
    IF out.ok
    THEN [NoRet EXCEPT !.tag = "true"]
    ELSE [NoRet EXCEPT !.tag = "false"]

\* signup of app/serverActions/user.ts resuming with the outcome of its
\* create: a failed create is not caught and rejects the call; otherwise the
\* user is truthy and true is returned.
signup(out) ==
    IF out.ok
    THEN [NoRet EXCEPT !.tag = "true"]
    ELSE [NoRet EXCEPT !.tag = "rejected", !.error = out.code]

\* The documented signup: try/catch around the same create.
signupDoc(out) ==
    IF out.ok
    THEN [NoRet EXCEPT !.tag = "object", !.success = TRUE, !.userId = out.row.id]
    ELSE [NoRet EXCEPT !.tag = "object", !.success = FALSE,
                       !.error = "Failed to create user"]

\* POST reading the password from the wrong property of the body.
postDataWrongField(body) ==
    [username |-> body.username, password |-> body.username]

\* The data object POST builds from the parsed body.
postData(body) ==
    [username |-> body.username, password |-> body.password]

\* POST acknowledging whatever its create did.
POSTAlwaysAck(out) ==
    "Signed up"

\* POST resuming with the outcome of its create: the JSON acknowledgment, or,
\* the rejection being uncaught, the framework's server error.
POST(out) ==
    IF out.ok THEN "Signed up" ELSE "500"

\* getUserDetails resuming with the outcome of findFirst: a failure is caught
\* and logged and nothing is returned; otherwise name and email are both
\* userDetail?.username.
getUserDetails(out) ==
    IF ~out.ok
    THEN [NoRet EXCEPT !.tag = "undefined"]
    ELSE [NoRet EXCEPT !.tag = "object",
                       !.email = IF out.code = "null" THEN Undefined
                                 ELSE out.row.username]

\* Home rendering userData.email.
Home(userData) ==
    IF userData.tag = "undefined" THEN "TypeError"
    ELSE IF userData.email = Undefined THEN "<div></div>"
    ELSE userData.email

\* ------------------------------------------------------ client handlers
\* Button's handler without its router.push.
handlerNoPush(response) ==
    ""

\* Button's handler resuming after await signup(username, password): a
\* rejection leaves the handler; any returned value is logged and followed by
\* router.push('/').
handler(response) ==
    IF response.tag = "rejected" THEN "" ELSE "/"

\* SignupForm's handleSubmit resuming after await signup(...).
handleSubmit(result) ==
    IF result.tag = "rejected"
    THEN [loading |-> FALSE, error |-> "An unexpected error occurred", route |-> ""]
    ELSE IF result.success
    THEN [loading |-> TRUE, error |-> "", route |-> "/dashboard"]
    ELSE [loading |-> FALSE,
          error |-> IF result.error # "" THEN result.error ELSE "Signup failed",
          route |-> ""]

\* What the user sees of one signup component.
UiState(q) ==
    IF q.route # "" THEN "navigated"
    ELSE IF q.error # "" THEN "error"
    ELSE IF q.pc \in {"awaitCreate", "awaitResume"} THEN "submitting"
    ELSE "idle"

\* The request with the UI state it has reached appended to its history.
Seen(q) ==
    IF q.hist[Len(q.hist)] = UiState(q) THEN q
    ELSE [q EXCEPT !.hist = Append(q.hist, UiState(q))]

SignupKinds == {"Button", "SignupForm", "POST"}

\* ---------------------------------------------------------------- actions
Init ==
    /\ users = {}
    /\ nextId = 1
    /\ req = [r \in Req |-> NoReq]
    /\ nodeEnv \in {"production", "development"}
    /\ globalPrisma = 0
    /\ modulePrisma = 0
    /\ constructed = 0

\* Request slots are taken in order.
Free(r) ==
    /\ req[r].kind = "none"
    /\ \A o \in Req : o < r => req[o].kind # "none"

\* The server module imports the client and req[r] becomes q with it.
Begin(r, q) ==
    LET m == importClient(nodeEnv, modulePrisma, globalPrisma, constructed)
    IN /\ req' = [req EXCEPT ![r] = Seen(
              [q EXCEPT !.client = m.prisma,
                        !.pre.existed = rowsOf(users, q.username) # {}])]
       /\ modulePrisma' = m.prisma
       /\ globalPrisma' = m.global
       /\ constructed' = m.constructed
       /\ UNCHANGED <<users, nextId, nodeEnv>>

\* A click on the Button holding username and password: signup is called and
\* its create is issued.
ButtonClick(r) ==
    /\ Free(r)
    /\ \E c \in Credentials :
          Begin(r, [NoReq EXCEPT !.kind = "Button", !.username = c[1],
                                 !.password = c[2], !.pc = "awaitCreate",
                                 !.data = signupData(c[1], c[2])])

\* The SignupForm is submitted with the formData it holds.
FormSubmit(r) ==
    /\ Free(r)
    /\ \E c \in Credentials :
          Begin(r, [NoReq EXCEPT !.kind = "SignupForm", !.username = c[1],
                                 !.password = c[2], !.pc = "awaitCreate",
                                 !.loading = TRUE, !.error = "",
                                 !.data = signupData(c[1], c[2])])

\* A POST arrives; its body is parsed and its create is issued.
PostReceive(r) ==
    /\ Free(r)
    /\ \E body \in Bodies :
          Begin(r, [NoReq EXCEPT !.kind = "POST", !.username = body.username,
                                 !.password = body.password, !.pc = "awaitCreate",
                                 !.data = postData(body)])

\* The Home page is rendered and getUserDetails issues its findFirst.
HomeRender(r) ==
    /\ Free(r)
    /\ Begin(r, [NoReq EXCEPT !.kind = "Home", !.pc = "awaitFind"])

\* The database executes the insert of request r.
UserCreate(r) ==
    /\ req[r].pc = "awaitCreate"
    /\ \E up \in BOOLEAN :
          LET c == create(users, nextId, req[r].data, up)
              others == {o \in Req \ {r} :
                            /\ req[o].pc = "awaitCreate"
                            /\ req[o].data.username = req[r].data.username}
          IN /\ users' = c.users
             /\ nextId' = c.nextId
             /\ req' = [req EXCEPT ![r] = Seen(
                    [@ EXCEPT !.pc = "awaitResume", !.out = c.out,
                              !.pre.fresh = rowsOf(users, req[r].data.username) = {},
                              !.pre.up = up, !.pre.raced = others # {}])]
    /\ UNCHANGED <<nodeEnv, globalPrisma, modulePrisma, constructed>>

\* The database executes the lookup of request r.
UserFindFirst(r) ==
    /\ req[r].pc = "awaitFind"
    /\ \E up \in BOOLEAN : \E o \in findFirst(users, up) :
          req' = [req EXCEPT ![r] = [@ EXCEPT !.pc = "awaitResume", !.out = o,
                                              !.pre.up = up]]
    /\ UNCHANGED <<users, nextId, nodeEnv, globalPrisma, modulePrisma, constructed>>

Resume(r, kind) ==
    /\ req[r].kind = kind
    /\ req[r].pc = "awaitResume"
    /\ UNCHANGED <<users, nextId, nodeEnv, globalPrisma, modulePrisma, constructed>>

\* signup returns (or rejects) and the Button's handler resumes.
ButtonResume(r) ==
    /\ Resume(r, "Button")
    /\ LET response == signup(req[r].out)
       IN req' = [req EXCEPT ![r] = Seen(
              [@ EXCEPT !.pc = "done", !.ret = response,
                        !.route = handler(response)])]

\* The documented signup returns and handleSubmit resumes.
FormResume(r) ==
    /\ Resume(r, "SignupForm")
    /\ LET result == signupDoc(req[r].out)
           status == handleSubmit(result)
       IN req' = [req EXCEPT ![r] = Seen(
              [@ EXCEPT !.pc = "done", !.ret = result,
                        !.loading = status.loading, !.error = status.error,
                        !.route = status.route])]

\* POST resumes after its create and answers.
PostRespond(r) ==
    /\ Resume(r, "POST")
    /\ req' = [req EXCEPT ![r] = [@ EXCEPT !.pc = "done",
                                           !.response = POST(req[r].out)]]

\* getUserDetails returns and Home renders.
HomeResume(r) ==
    /\ Resume(r, "Home")
    /\ LET userData == getUserDetails(req[r].out)
       IN req' = [req EXCEPT ![r] = [@ EXCEPT !.pc = "done", !.ret = userData,
                                              !.view = Home(userData)]]

\* A development hot reload drops the evaluated db/index.ts from the module
\* cache; globalThis survives it.
HotReload ==
    /\ nodeEnv # "production"
    /\ modulePrisma # 0
    /\ modulePrisma' = 0
    /\ UNCHANGED <<users, nextId, req, nodeEnv, globalPrisma, constructed>>

Next ==
    \/ \E r \in Req : ButtonClick(r)
    \/ \E r \in Req : FormSubmit(r)
    \/ \E r \in Req : PostReceive(r)
    \/ \E r \in Req : HomeRender(r)
    \/ \E r \in Req : UserCreate(r)
    \/ \E r \in Req : UserFindFirst(r)
    \/ \E r \in Req : ButtonResume(r)
    \/ \E r \in Req : FormResume(r)
    \/ \E r \in Req : PostRespond(r)
    \/ \E r \in Req : HomeResume(r)
    \/ HotReload

Spec == Init /\ [][Next]_vars

\* A process whose db/index.ts is about to be evaluated with whatever an
\* earlier evaluation left behind: a production process at its start, or a
\* development process in which the module was evaluated once and a hot
\* reload has just dropped it from the module cache.
InitReload ==
    /\ users = {}
    /\ nextId = 1
    /\ req = [r \in Req |-> NoReq]
    /\ \/ /\ nodeEnv = "production"
          /\ globalPrisma = 0
          /\ constructed = 0
       \/ /\ nodeEnv = "development"
          /\ globalPrisma = prismaModule("development", 0, 0).global
          /\ constructed = prismaModule("development", 0, 0).constructed
    /\ modulePrisma = 0

SpecReload == InitReload /\ [][Next]_vars

\* ------------------------------------------------------------ properties
\* The insert of request r has been executed by the database.
Created(r) ==
    /\ req[r].kind \in SignupKinds
    /\ req[r].pc \in {"awaitResume", "done"}

\* Request r has ended and reported success to its caller.
Succeeded(r) ==
    /\ req[r].pc = "done"
    /\ \/ req[r].kind = "Button" /\ req[r].ret.tag = "true"
       \/ req[r].kind = "SignupForm" /\ req[r].ret.success
       \/ req[r].kind = "POST" /\ req[r].response = "Signed up"

\* Request r has ended in a structured failure or a thrown error.
Rejected(r) ==
    /\ req[r].pc = "done"
    /\ \/ req[r].kind = "Button" /\ req[r].ret.tag = "rejected"
       \/ req[r].kind = "SignupForm" /\ req[r].ret.tag = "object"
                                     /\ ~req[r].ret.success
       \/ req[r].kind = "POST" /\ req[r].response = "500"

\* The row of the store that holds the credentials request r submitted.
Stored(r) ==
    \E row \in users :
        /\ row.username = req[r].username
        /\ row.password = req[r].password
        /\ rowsOf(users, req[r].username) = {row}

\* C1. Uniqueness: the store never holds two rows with one username; of the
\* signup attempts (server action or POST) with one username at most one
\* succeeds; an attempt whose insert finds the username stored is rejected,
\* by a structured failure or a thrown error, and its insert adds no row.
Uniqueness ==
    /\ \A a, b \in users : a.username = b.username => a = b
    /\ \A r1, r2 \in Req :
          (/\ r1 # r2
           /\ Created(r1) /\ Created(r2)
           /\ req[r1].data.username = req[r2].data.username)
          => ~(req[r1].out.ok /\ req[r2].out.ok)
    /\ \A r \in Req :
          (Created(r) /\ ~req[r].pre.fresh)
          => /\ ~req[r].out.ok
             /\ req[r].pc = "done" => Rejected(r)

UniquenessWitness ==
    \E r1, r2 \in Req :
        /\ r1 # r2
        /\ req[r1].kind = "Button" /\ req[r2].kind = "POST"
        /\ req[r1].username = req[r2].username
        /\ Succeeded(r1)
        /\ Rejected(r2) /\ req[r2].out.code = "P2002"
        /\ Cardinality(rowsOf(users, req[r1].username)) = 1

\* C2. Persistence round trip: once signup(u, p) has succeeded, the store
\* holds exactly one row with username u and its password is p as submitted,
\* in that state and in every later one.
PersistenceRoundTrip ==
    \A r \in Req :
        (req[r].kind \in {"Button", "SignupForm"} /\ Succeeded(r)) => Stored(r)

PersistenceRoundTripWitness ==
    \E r1, r2 \in Req :
        /\ r1 # r2
        /\ req[r1].kind = "Button" /\ Succeeded(r1)
        /\ req[r1].password = "secret123"
        /\ req[r2].pc = "done" /\ req[r2].kind \in SignupKinds
        /\ req[r2].username = req[r1].username
        /\ req[r2].password # req[r1].password
        /\ req[r2].pre.existed
        /\ Stored(r1)

\* C3. HTTP contract: a POST whose body carries a username and a password,
\* and whose insert is executed by a reachable database while the username is
\* not in the store, answers {"message": "Signed up"}; and whenever that
\* answer is produced a row with the body's username and password is stored.
HttpContract ==
    \A r \in Req :
        (req[r].kind = "POST" /\ req[r].pc = "done")
        => /\ (/\ req[r].username \in Usernames
               /\ req[r].pre.fresh /\ req[r].pre.up)
              => req[r].response = "Signed up"
           /\ req[r].response = "Signed up" => Stored(r)

HttpContractWitness ==
    \E r \in Req :
        /\ req[r].kind = "POST" /\ req[r].pc = "done"
        /\ req[r].username = "bob" /\ req[r].password = "pw"
        /\ req[r].response = "Signed up"
        /\ [id |-> req[r].out.row.id, username |-> "bob", password |-> "pw"]
               \in users

\* The signup components: the Button and the documented SignupForm.
UiKinds == {"Button", "SignupForm"}

\* C4. Idle, submitting, error: a signup component that submits a username
\* already in the store ends in the error state with a non-empty message,
\* without navigation, and no row is added.
ErrorOnDuplicate ==
    \A r \in Req :
        (req[r].kind \in UiKinds /\ req[r].pc = "done" /\ req[r].pre.existed)
        => /\ UiState(req[r]) = "error"
           /\ req[r].error # ""
           /\ req[r].route = ""
           /\ ~req[r].out.ok

\* C5. Idle, submitting, success: a signup component whose insert is executed
\* by a reachable database while the username is not in the store goes from
\* idle to submitting to the navigation to its fixed route; signup was called
\* with exactly the username and password the component holds; and a
\* component that navigated never showed the error state.
SuccessTransition ==
    \A r \in Req :
        /\ (/\ req[r].kind \in UiKinds /\ req[r].pc = "done"
            /\ req[r].pre.fresh /\ req[r].pre.up)
           => /\ req[r].hist = <<"idle", "submitting", "navigated">>
              /\ req[r].route = IF req[r].kind = "Button" THEN "/" ELSE "/dashboard"
              /\ req[r].error = ""
        /\ (req[r].kind \in UiKinds /\ req[r].pc # "idle")
           => /\ req[r].data.username = req[r].username
              /\ req[r].data.password = req[r].password
        /\ (req[r].kind \in UiKinds /\ req[r].route # "")
           => \A i \in 1..Len(req[r].hist) : req[r].hist[i] # "error"

SuccessTransitionWitness ==
    \E r1, r2 \in Req :
        /\ req[r1].kind = "Button" /\ req[r1].pc = "done"
        /\ req[r1].pre.fresh /\ req[r1].pre.up /\ req[r1].route = "/"
        /\ req[r2].kind = "SignupForm" /\ req[r2].pc = "done"
        /\ req[r2].pre.fresh /\ req[r2].pre.up /\ req[r2].route = "/dashboard"

\* C6. Singleton handle: the PrismaClient constructor runs at most once in a
\* process, and every import of the client, before or after a hot reload,
\* yields the instance the first import constructed.
SingletonHandle ==
    /\ constructed <= 1
    /\ modulePrisma \in {0, 1}
    /\ \A r \in Req : req[r].kind # "none" => req[r].client = 1

SingletonHandleWitness ==
    /\ nodeEnv = "development"
    /\ modulePrisma = 0
    /\ globalPrisma = 1
    /\ constructed = 1
    /\ \A r \in Req : req[r].client = 1

\* C7. Signup error handling: a failed insert of signup leaves the store
\* unchanged and is never reported as success; the documented catching
\* variant returns {success: false, error: 'Failed to create user'} and does
\* not throw; signup of user.ts returns nothing and rejects.
SignupErrorHandling ==
    [][\A r \in Req :
          /\ (/\ req[r].kind \in UiKinds
              /\ req[r].pc = "awaitCreate" /\ req'[r].pc = "awaitResume"
              /\ ~req'[r].out.ok)
             => users' = users
          /\ (/\ req[r].kind \in UiKinds
              /\ req[r].pc = "awaitResume" /\ req'[r].pc = "done"
              /\ ~req[r].out.ok)
             => /\ req'[r].ret.tag # "true" /\ ~req'[r].ret.success
                /\ req[r].kind = "SignupForm"
                   => req'[r].ret = [NoRet EXCEPT !.tag = "object",
                                                  !.error = "Failed to create user"]
                /\ req[r].kind = "Button"
                   => req'[r].ret.tag = "rejected"]_vars

SignupErrorHandlingWitness ==
    \E r1, r2 \in Req :
        /\ req[r1].kind = "Button" /\ req[r1].pc = "done"
        /\ req[r1].out.code = "P1001" /\ req[r1].ret.tag = "rejected"
        /\ req[r2].kind = "SignupForm" /\ req[r2].pc = "done"
        /\ req[r2].out.code = "P1001"
        /\ req[r2].ret.error = "Failed to create user"
        /\ users = {}

\* C8. HTTP endpoint error path: a failed insert of POST leaves the store
\* unchanged and is answered by a server error, never by "Signed up"; a
\* "Signed up" answer follows an insert of that request that added its row.
HttpErrorPath ==
    [][\A r \in Req :
          /\ (/\ req[r].kind = "POST"
              /\ req[r].pc = "awaitCreate" /\ req'[r].pc = "awaitResume")
             => IF req'[r].out.ok
                THEN users' = users \cup {req'[r].out.row} /\ users' # users
                ELSE users' = users
          /\ (/\ req[r].kind = "POST"
              /\ req[r].pc = "awaitResume" /\ req'[r].pc = "done")
             => IF req[r].out.ok
                THEN req'[r].response = "Signed up"
                ELSE req'[r].response = "500"]_vars

HttpErrorPathWitness ==
    \E r1, r2 \in Req :
        /\ r1 # r2
        /\ req[r1].kind = "POST" /\ req[r1].pc = "done"
        /\ req[r1].response = "Signed up"
        /\ req[r2].kind = "POST" /\ req[r2].pc = "done"
        /\ req[r2].out.code = "P2002" /\ req[r2].response = "500"
        /\ users = {req[r1].out.row}

\* C9. Concurrent same-username race: when the insert of one signup is
\* executed by a reachable database while the username is not stored and
\* another signup with that username is in flight, that insert succeeds and
\* every other insert with the username fails, with a constraint violation if
\* it reaches the database; the store holds one row with the username.
RaceOneWinner ==
    \A r1 \in Req :
        (Created(r1) /\ req[r1].pre.raced /\ req[r1].pre.fresh /\ req[r1].pre.up
            /\ req[r1].data.username \in Usernames)
        => /\ req[r1].out.ok
           /\ Cardinality(rowsOf(users, req[r1].data.username)) = 1
           /\ \A r2 \in Req \ {r1} :
                 (Created(r2) /\ req[r2].data.username = req[r1].data.username)
                 => /\ ~req[r2].out.ok
                    /\ req[r2].pre.up => req[r2].out.code = "P2002"

RaceOneWinnerWitness ==
    \E r1, r2 \in Req :
        /\ r1 # r2
        /\ req[r1].kind = "Button" /\ req[r2].kind = "POST"
        /\ req[r1].data.username = req[r2].data.username
        /\ ~req[r1].pre.existed /\ ~req[r2].pre.existed
        /\ req[r2].pre.raced /\ req[r2].out.ok
        /\ req[r1].pc = "done" /\ req[r1].out.code = "P2002"
        /\ req[r2].pc = "done"

\* C10. Row lifecycle: every step keeps every stored row as it is; a step adds
\* at most one row, and its id differs from every id in the store; a
\* successful insert adds exactly one row.
RowLifecycle ==
    [][/\ users \subseteq users'
       /\ Cardinality(users' \ users) <= 1
       /\ \A new \in users' \ users : \A old \in users : new.id # old.id
       /\ \A r \in Req :
             (req[r].pc = "awaitCreate" /\ req'[r].pc = "awaitResume"
                 /\ req'[r].out.ok)
             => Cardinality(users') = Cardinality(users) + 1]_vars

RowLifecycleWitness ==
    \E r1, r2 \in Req :
        /\ req[r1].kind = "Button" /\ req[r1].pc = "done" /\ req[r1].out.ok
        /\ req[r2].kind = "POST" /\ req[r2].pc = "done" /\ req[r2].out.ok
        /\ req[r1].out.row.id # req[r2].out.row.id
        /\ users = {req[r1].out.row, req[r2].out.row}
        /\ Cardinality(users) = 2

\* C11. Hot-reload caching: outside production every re-evaluation of
\* db/index.ts after a hot reload exports the instance held by
\* globalThis.prisma, leaves it there and constructs no client; in production
\* no step stores an instance on globalThis.
HotReloadCaching ==
    [][/\ (/\ nodeEnv # "production" /\ globalPrisma # 0
           /\ modulePrisma = 0 /\ modulePrisma' # 0)
          => /\ modulePrisma' = globalPrisma
             /\ globalPrisma' = globalPrisma
             /\ constructed' = constructed
       /\ nodeEnv = "production" => globalPrisma' = 0]_vars

HotReloadCachingWitness ==
    /\ nodeEnv = "development"
    /\ \A r \in Req : req[r].kind # "none" /\ req[r].client = globalPrisma
    /\ modulePrisma = globalPrisma
    /\ globalPrisma # 0
    /\ constructed = 1

====
